---- MODULE Spec2Model ----
(***************************************************************************)
(* A model of ddpg_agent.py: the DDPG Agent, its process-wide resource     *)
(* pool (networks, optimizers, replay buffer), the Ornstein-Uhlenbeck      *)
(* noise process and the replay buffer.                                    *)
(*                                                                         *)
(* Numbers are fixed-point integers.  A network parameter is counted in    *)
(* units of 5e-8, so that one optimizer step of learning rate 5e-5 is      *)
(* 1000 units and TAU = 1e-3 is the fraction TAU_NUM / TAU_DEN.  A noise   *)
(* value is counted in hundredths.  The tensor engine (autodiff, the       *)
(* networks' forward pass) is outside the repository: a gradient is a      *)
(* direction, -1 or 1, and an optimizer step moves every parameter it is   *)
(* bound to one learning-rate step against that direction.                 *)
(***************************************************************************)
EXTENDS Integers, Sequences, FiniteSets, TLC

VARIABLES
    agents,        \* [Agents -> NoAgent or the Agent object's fields]
    rng,           \* the state of Python's module-level random generator
    resourcePool,  \* Agent.resourcePool: NoPool, or what the pool was built for
    nets,          \* the four networks' parameter lists
    training,      \* the four networks' train/eval mode flags
    optSteps,      \* the number of steps each optimizer has applied
    memory,        \* ReplayBuffer.memory, a deque
    maxlen,        \* the deque's maxlen
    last,          \* what the last completed call observed
    added,         \* every experience given to ReplayBuffer.add, in order
    ref,           \* per agent: the noise process run on a generator of its own
    ncalls         \* the number of calls made so far

vars == <<agents, rng, resourcePool, nets, training, optSteps, memory, maxlen,
          last, added, ref, ncalls>>

----------------------------------------------------------------------------
(* Bounds of the model *)

MaxTimeStep == 2
NParams == 2
RandMod == 8
MaxCalls == 5
MaxOptSteps == 2
MaxCapacity == 5
MaxAdds == 7
MaxParam == 1

(* The program's constants.  The buffer, batch and learning-schedule sizes *)
(* are scaled down, keeping BUFFER_SIZE > BATCH_SIZE > 1, LEARN_N_INTERVAL *)
(* > 1 and LEARN_N_TIMES > 1.                                              *)

BUFFER_SIZE == 3
BATCH_SIZE == 2
LEARN_N_INTERVAL == 2
LEARN_N_TIMES == 2
LR_ACTOR == 1000
LR_CRITIC == 1000
TAU_NUM == 1
TAU_DEN == 1000
THETA == 15
SIGMA == 20
MU == 0
NoiseScale == 100

(* The inputs of the calls: two Agent objects, two network configurations, *)
(* one seed, one reward value.                                             *)

Agents == {1, 2}
Sizes == {1, 2}
Seeds == {1}
Rewards == {0}
Configs == {<<n, n>> : n \in Sizes}
TimeSteps == 1..MaxTimeStep
NetNames == {"actor_local", "actor_target", "critic_local", "critic_target"}
Experiences ==
    [state : {0}, action : {0}, reward : Rewards, next_state : {0},
     done : BOOLEAN]
Gradients == {-1, 1}

NoAgent == [state_size |-> 0, action_size |-> 0, noise |-> <<>>, mu |-> <<>>]
NoPool == [state_size |-> 0, action_size |-> 0, batch_size |-> 0]
NoRef == [rng |-> 0, state |-> <<>>]
NoCall ==
    [op |-> "none", agent |-> 0, time_step |-> 0, add_noise |-> FALSE,
     before |-> <<>>, mode |-> TRUE, log |-> <<>>, batch |-> <<>>, nadd |-> 0,
     nsample |-> 0, short |-> 0, nlearn |-> 0, len |-> 0, error |-> FALSE,
     tau |-> 0, local |-> "", target |-> ""]

----------------------------------------------------------------------------
(* Python's random module: one generator for the whole process *)

\* random.seed(seed): the generator's state is a function of the seed alone
RandomSeed(seed) == seed % RandMod

\* one draw: the generator moves to its next state (a full-period congruence)
RandomNext(r) == (5 * r + 3) % RandMod

\* random.random(): the value drawn from generator state r, in hundredths
RandomValue(r) == (RandomNext(r) * NoiseScale) \div RandMod

\* the generator's state after n draws
RECURSIVE RandomAfter(_, _)
RandomAfter(r, n) == IF n = 0 THEN r ELSE RandomAfter(RandomNext(r), n - 1)

----------------------------------------------------------------------------
(* OUNoise *)

\* OUNoise.__init__: mu * np.ones(size)
OUNoiseMu(size) == [i \in 1..size |-> MU]

\* OUNoise.reset: the state becomes a copy of mu
OUNoiseReset(mu) == mu

\* OUNoise.sample: x + theta * (mu - x) + sigma * [random.random() per dimension],
\* the draws taken in order from generator state r
OUNoiseSample(x, mu, r) ==
    [i \in 1..Len(x) |->
        x[i] + ((THETA * (mu[i] - x[i])) \div NoiseScale)
             + ((SIGMA * RandomValue(RandomAfter(r, i - 1))) \div NoiseScale)]

----------------------------------------------------------------------------
(* ReplayBuffer *)

\* a buffer that refuses a new entry when full, keeping the oldest
ReplayBufferAddKeepsOldest(q, e, cap) ==
    IF Len(q) >= cap THEN q ELSE Append(q, e)

\* deque.append under maxlen: a full deque drops its oldest entry first
ReplayBufferAdd(q, e, cap) ==
    IF cap = 0 THEN q
    ELSE IF Len(q) >= cap THEN Append(Tail(q), e)
    ELSE Append(q, e)

\* ReplayBuffer.__len__
ReplayBufferLen(q) == Len(q)

\* random.sample(population, k) on a small population: k times, draw an index
\* below the number of entries left, take that entry, and move the last entry
\* left into its place
RECURSIVE RandomSample(_, _, _, _)
RandomSample(pool, n, k, r) ==
    IF k = 0 THEN <<>>
    ELSE LET r1 == RandomNext(r)
             j == (r1 % n) + 1
         IN <<pool[j]>> \o
            RandomSample([pool EXCEPT ![j] = pool[n]], n - 1, k - 1, r1)

\* ReplayBuffer.sample: the drawn experiences as five parallel arrays, the done
\* flags as 0/1
ReplayBufferSample(q, k, r) ==
    LET es == RandomSample(q, Len(q), k, r)
    IN [states |-> [i \in 1..Len(es) |-> es[i].state],
        actions |-> [i \in 1..Len(es) |-> es[i].action],
        rewards |-> [i \in 1..Len(es) |-> es[i].reward],
        next_states |-> [i \in 1..Len(es) |-> es[i].next_state],
        dones |-> [i \in 1..Len(es) |-> IF es[i].done THEN 1 ELSE 0]]

----------------------------------------------------------------------------
(* The networks and their optimizers *)

\* Actor(...) and Critic(...): the initial parameters are a function of the seed
NetworkInit(seed) == [i \in 1..NParams |-> seed * LR_ACTOR]

\* AgentResourcePool.__init__: local and target are built from the same seed
PoolNets(seed) == [n \in NetNames |-> NetworkInit(seed)]

\* the critic's optimizer constructed over the target network's parameters
CriticOptimizerOverTarget == "critic_target"

\* the parameters each optimizer was constructed over
ActorOptimizerParams == "actor_local"
CriticOptimizerParams == "critic_local"

\* optimizer.step(): every parameter the optimizer is bound to moves one
\* learning-rate step against the gradient's direction g
OptimizerStep(ns, bound, lr, g) ==
    [ns EXCEPT ![bound] = [i \in 1..Len(@) |-> @[i] - lr * g]]

\* nn.Module.eval() and nn.Module.train() on one network
ModuleEval(tr, n) == [tr EXCEPT ![n] = FALSE]
ModuleTrain(tr, n) == [tr EXCEPT ![n] = TRUE]

\* n / d rounded to the nearest integer
RoundDiv(n, d) == (2 * n + d) \div (2 * d)

\* the blend with local and target exchanged
SoftUpdateParamsSwapped(local, target, tauNum) ==
    [i \in 1..Len(target) |->
        IF i <= Len(local)
        THEN RoundDiv(tauNum * target[i] + (TAU_DEN - tauNum) * local[i],
                      TAU_DEN)
        ELSE target[i]]

\* Agent.soft_update on one pair of parameter lists, zipped:
\* target <- tau * local + (1 - tau) * target, with tau = tauNum / TAU_DEN
SoftUpdateParams(local, target, tauNum) ==
    [i \in 1..Len(target) |->
        IF i <= Len(local)
        THEN RoundDiv(tauNum * local[i] + (TAU_DEN - tauNum) * target[i],
                      TAU_DEN)
        ELSE target[i]]

\* Agent.soft_update(local_model, target_model, tau)
SoftUpdate(ns, localName, targetName, tauNum) ==
    [ns EXCEPT ![targetName] = SoftUpdateParams(ns[localName], @, tauNum)]

----------------------------------------------------------------------------
(* Agent *)

\* step without its interval gate, and with its size gate against zero
IsLearnTickAlways(t) == TRUE
EnoughSamplesAny(n) == n > 0

\* Agent.step's two gates
IsLearnTick(t) == t % LEARN_N_INTERVAL = 0
EnoughSamples(n) == n > BATCH_SIZE

\* reset of a noise process that all agents share
AgentResetAll(ags, a) ==
    [b \in Agents |->
        IF ags[b] = NoAgent THEN ags[b]
        ELSE [ags[b] EXCEPT !.noise = OUNoiseReset(ags[b].mu)]]

\* Agent.reset, on the agents' own objects
AgentReset(ags, a) == [ags EXCEPT ![a].noise = OUNoiseReset(ags[a].mu)]

\* act without the train() call after the forward pass
ActTrainSkipped(tr) == tr

\* Agent.act's handling of actor_local's mode around the forward pass
ActEval(tr) == ModuleEval(tr, "actor_local")
ActTrain(tr) == ModuleTrain(tr, "actor_local")

\* learn with the actor updated before the critic
LearnOrderActorFirst ==
    <<"td_target", "actor_loss", "actor_step", "critic_step", "soft_critic",
      "soft_actor">>

\* the order of Agent.learn's steps
LearnOrder ==
    <<"td_target", "critic_step", "actor_loss", "actor_step", "soft_critic",
      "soft_actor">>

Init ==
    /\ agents = [a \in Agents |-> NoAgent]
    /\ rng = 0
    /\ resourcePool = NoPool
    /\ nets = [n \in NetNames |-> <<>>]
    /\ training = [n \in NetNames |-> TRUE]
    /\ optSteps = [actor_optimizer |-> 0, critic_optimizer |-> 0]
    /\ memory = <<>>
    /\ maxlen = 0
    /\ last = NoCall
    /\ added = <<>>
    /\ ref = [a \in Agents |-> NoRef]
    /\ ncalls = 0

CanCall == ncalls < MaxCalls

\* Agent(state_size, action_size, random_seed)
Construct(a, ss, as, seed) ==
    /\ CanCall
    /\ agents[a] = NoAgent
    /\ agents' = [agents EXCEPT ![a] =
           [state_size |-> ss, action_size |-> as, mu |-> OUNoiseMu(as),
            noise |-> OUNoiseReset(OUNoiseMu(as))]]
    /\ rng' = RandomSeed(seed)
    /\ ref' = [ref EXCEPT ![a] =
           [rng |-> RandomSeed(seed), state |-> OUNoiseReset(OUNoiseMu(as))]]
    /\ IF resourcePool = NoPool
       THEN /\ resourcePool' =
                   [state_size |-> ss, action_size |-> as,
                    batch_size |-> BATCH_SIZE]
            /\ nets' = PoolNets(seed)
            /\ memory' = <<>>
            /\ maxlen' = BUFFER_SIZE
       ELSE UNCHANGED <<resourcePool, nets, memory, maxlen>>
    /\ last' = [NoCall EXCEPT !.op = "init", !.agent = a]
    /\ ncalls' = ncalls + 1
    /\ UNCHANGED <<training, optSteps, added>>

\* Agent.reset()
Reset(a) ==
    /\ CanCall
    /\ agents[a] # NoAgent
    /\ agents' = AgentReset(agents, a)
    /\ ref' = [ref EXCEPT ![a].state = OUNoiseReset(agents[a].mu)]
    /\ last' = [NoCall EXCEPT !.op = "reset", !.agent = a,
                              !.before = agents[a].noise]
    /\ ncalls' = ncalls + 1
    /\ UNCHANGED <<rng, resourcePool, nets, training, optSteps, memory, maxlen,
                   added>>

\* Agent.act(state, add_noise), state a vector of dim entries
Act(a, dim, add_noise) ==
    /\ CanCall
    /\ agents[a] # NoAgent
    /\ LET x == agents[a].noise
           forwardFails == dim # resourcePool.state_size
           sampled == ~forwardFails /\ add_noise
           addFails == sampled /\ Len(x) # resourcePool.action_size
                               /\ Len(x) # 1
       IN /\ training' = IF forwardFails THEN ActEval(training)
                         ELSE ActTrain(ActEval(training))
          /\ agents' = IF sampled
                       THEN [agents EXCEPT ![a].noise =
                                OUNoiseSample(x, agents[a].mu, rng)]
                       ELSE agents
          /\ rng' = IF sampled THEN RandomAfter(rng, Len(x)) ELSE rng
          /\ ref' = IF sampled
                    THEN [ref EXCEPT ![a] =
                            [rng |-> RandomAfter(@.rng, Len(x)),
                             state |-> OUNoiseSample(@.state, agents[a].mu,
                                                     @.rng)]]
                    ELSE ref
          /\ last' = [NoCall EXCEPT !.op = "act", !.agent = a,
                         !.add_noise = add_noise, !.before = x,
                         !.mode = training["actor_local"],
                         !.error = forwardFails \/ addFails]
    /\ ncalls' = ncalls + 1
    /\ UNCHANGED <<resourcePool, nets, optSteps, memory, maxlen, added>>

\* one step of Agent.learn, on the learning state st (the networks, the
\* optimizers' step counts, the log of the steps done), with gradients gc for
\* the critic's loss and ga for the actor's
LearnStage(stage, st, gc, ga) ==
    LET reads ==
            CASE stage = "td_target" -> {"actor_target", "critic_target"}
              [] stage = "critic_step" -> {"critic_local"}
              [] stage = "actor_loss" -> {"actor_local", "critic_local"}
              [] stage = "actor_step" -> {"actor_local"}
              [] stage = "soft_critic" -> {"critic_local", "critic_target"}
              [] stage = "soft_actor" -> {"actor_local", "actor_target"}
        nets1 ==
            CASE stage = "critic_step" ->
                    OptimizerStep(st.nets, CriticOptimizerParams, LR_CRITIC, gc)
              [] stage = "actor_step" ->
                    OptimizerStep(st.nets, ActorOptimizerParams, LR_ACTOR, ga)
              [] stage = "soft_critic" ->
                    SoftUpdate(st.nets, "critic_local", "critic_target",
                               TAU_NUM)
              [] stage = "soft_actor" ->
                    SoftUpdate(st.nets, "actor_local", "actor_target", TAU_NUM)
              [] OTHER -> st.nets
        steps1 ==
            CASE stage = "critic_step" ->
                    [st.optSteps EXCEPT !.critic_optimizer = @ + 1]
              [] stage = "actor_step" ->
                    [st.optSteps EXCEPT !.actor_optimizer = @ + 1]
              [] OTHER -> st.optSteps
        entry ==
            [stage |-> stage, reads |-> reads,
             writes |-> {n \in NetNames : nets1[n] # st.nets[n]},
             critic_steps |-> st.optSteps.critic_optimizer,
             actor_steps |-> st.optSteps.actor_optimizer]
    IN [nets |-> nets1, optSteps |-> steps1, log |-> Append(st.log, entry)]

\* the element of a one-element set
Only(S) == CHOOSE x \in S : TRUE

\* Agent.learn(experiences, gamma): its steps from the k-th on, in order
RECURSIVE LearnFrom(_, _, _, _)
LearnFrom(k, st, gc, ga) ==
    IF k > Len(LearnOrder) THEN st
    ELSE Only({LearnFrom(k + 1, st1, gc, ga) :
                 st1 \in {LearnStage(LearnOrder[k], st, gc, ga)}})

AgentLearn(ns, os, gc, ga) ==
    Only({LearnFrom(1, st, gc, ga) :
            st \in {[nets |-> ns, optSteps |-> os, log |-> <<>>]}})

\* Agent.step's loop, from iteration i on: sample, then learn.  lp holds the
\* networks, the optimizers' step counts, the generator's state and what the
\* loop did; grads gives each iteration's gradients.  random.sample raises
\* ValueError when the batch is larger than the buffer, which ends the call.
RECURSIVE StepLoop(_, _, _, _)
StepLoop(i, lp, q, grads) ==
    IF i > LEARN_N_TIMES THEN lp
    ELSE IF ReplayBufferLen(q) < resourcePool.batch_size
    THEN [lp EXCEPT !.nsample = @ + 1, !.short = @ + 1, !.error = TRUE]
    ELSE Only({StepLoop(i + 1, lp1, q, grads) :
                 lp1 \in {[lp EXCEPT
                     !.nets = l.nets, !.optSteps = l.optSteps,
                     !.rng = RandomAfter(@, resourcePool.batch_size),
                     !.nsample = @ + 1, !.nlearn = @ + 1,
                     !.batch = ReplayBufferSample(q, resourcePool.batch_size,
                                                  lp.rng),
                     !.log = @ \o l.log] :
                   l \in {AgentLearn(lp.nets, lp.optSteps, grads[i].critic,
                                     grads[i].actor)}}})

\* Agent.step(time_step, state, action, reward, next_state, done)
AgentStep(t, e, grads) ==
    LET q == ReplayBufferAdd(memory, e, maxlen)
        lp0 == [nets |-> nets, optSteps |-> optSteps, rng |-> rng,
                memory |-> q, nadd |-> 1, nsample |-> 0, short |-> 0,
                nlearn |-> 0, batch |-> <<>>, log |-> <<>>, error |-> FALSE]
    IN IF ~IsLearnTick(t) THEN lp0
       ELSE IF EnoughSamples(ReplayBufferLen(q))
       THEN Only({StepLoop(1, lp, qv, grads) : lp \in {lp0}, qv \in {q}})
       ELSE lp0

\* whether step(t, ...) adding e goes on to learn
StepLearns(t, e) ==
    /\ IsLearnTick(t)
    /\ EnoughSamples(ReplayBufferLen(ReplayBufferAdd(memory, e, maxlen)))

\* the gradients the tensor engine may compute during one step call: none are
\* computed by a call that does not learn
StepGradients(t, e) ==
    IF StepLearns(t, e)
    THEN [1..LEARN_N_TIMES -> [critic : Gradients, actor : Gradients]]
    ELSE {[i \in 1..LEARN_N_TIMES |-> [critic |-> 0, actor |-> 0]]}

Step(a, t, e) ==
    /\ CanCall
    /\ agents[a] # NoAgent
    /\ StepLearns(t, e) =>
          optSteps.critic_optimizer + LEARN_N_TIMES <= MaxOptSteps
    /\ \E grads \in StepGradients(t, e) :
          \E r \in {AgentStep(t, e, grads)} :
             /\ memory' = r.memory
             /\ nets' = r.nets
             /\ optSteps' = r.optSteps
             /\ rng' = r.rng
             /\ last' = [NoCall EXCEPT !.op = "step", !.agent = a,
                            !.time_step = t, !.len = ReplayBufferLen(r.memory),
                            !.nadd = r.nadd, !.nsample = r.nsample,
                            !.short = r.short, !.nlearn = r.nlearn,
                            !.batch = r.batch, !.log = r.log,
                            !.error = r.error]
    /\ ncalls' = ncalls + 1
    /\ UNCHANGED <<agents, resourcePool, training, maxlen, added, ref>>

\* Agent.learn(experiences, gamma) called by itself, on any batch
Learn(a) ==
    /\ CanCall
    /\ agents[a] # NoAgent
    /\ optSteps.critic_optimizer < MaxOptSteps
    /\ \E gc \in Gradients, ga \in Gradients :
          \E l \in {AgentLearn(nets, optSteps, gc, ga)} :
             /\ nets' = l.nets
             /\ optSteps' = l.optSteps
             /\ last' = [NoCall EXCEPT !.op = "learn", !.agent = a,
                            !.nlearn = 1, !.log = l.log]
    /\ ncalls' = ncalls + 1
    /\ UNCHANGED <<agents, rng, resourcePool, training, memory, maxlen, added,
                   ref>>

Next ==
    \/ \E a \in Agents, c \in Configs, seed \in Seeds :
          Construct(a, c[1], c[2], seed)
    \/ \E a \in Agents : Reset(a)
    \/ \E a \in Agents, dim \in Sizes, add_noise \in BOOLEAN :
          Act(a, dim, add_noise)
    \/ \E a \in Agents, t \in TimeSteps, e \in Experiences : Step(a, t, e)
    \/ \E a \in Agents : Learn(a)

Spec == Init /\ [][Next]_vars

----------------------------------------------------------------------------
(* The replay buffer by itself, built with any capacity *)

\* ReplayBuffer(action_size, buffer_size, batch_size, seed)
InitBuf ==
    /\ agents = [a \in Agents |-> NoAgent]
    /\ \E seed \in Seeds : rng = RandomSeed(seed)
    /\ resourcePool = NoPool
    /\ nets = [n \in NetNames |-> <<>>]
    /\ training = [n \in NetNames |-> TRUE]
    /\ optSteps = [actor_optimizer |-> 0, critic_optimizer |-> 0]
    /\ memory = <<>>
    /\ maxlen \in 1..MaxCapacity
    /\ last = NoCall
    /\ added = <<>>
    /\ ref = [a \in Agents |-> NoRef]
    /\ ncalls = 0

\* ReplayBuffer.add(state, action, reward, next_state, done)
BufAdd(e) ==
    /\ Len(added) < MaxAdds
    /\ memory' = ReplayBufferAdd(memory, e, maxlen)
    /\ added' = Append(added, e)
    /\ last' = [NoCall EXCEPT !.op = "add", !.len = ReplayBufferLen(memory')]
    /\ UNCHANGED <<agents, rng, resourcePool, nets, training, optSteps, maxlen,
                   ref, ncalls>>

NextBuf == \E e \in Experiences : BufAdd(e)

SpecBuf == InitBuf /\ [][NextBuf]_vars

----------------------------------------------------------------------------
(* soft_update by itself, on any parameters and any tau in [0, 1] *)

ParamValues == (0 - MaxParam)..MaxParam
TauNums == {0, TAU_NUM, TAU_DEN \div 2, TAU_DEN}
Pairs == {<<"critic_local", "critic_target">>, <<"actor_local", "actor_target">>}

\* one agent and its pool, the local and target networks trained to any
\* parameters
InitSoft ==
    /\ agents = [a \in Agents |->
                    IF a = 1
                    THEN [state_size |-> 1, action_size |-> 1,
                          mu |-> OUNoiseMu(1),
                          noise |-> OUNoiseReset(OUNoiseMu(1))]
                    ELSE NoAgent]
    /\ \E seed \in Seeds : rng = RandomSeed(seed)
    /\ resourcePool = [state_size |-> 1, action_size |-> 1,
                       batch_size |-> BATCH_SIZE]
    /\ \E l \in [1..NParams -> ParamValues], t \in [1..NParams -> ParamValues] :
          nets = [n \in NetNames |->
                    IF n \in {"critic_local", "actor_target"} THEN l ELSE t]
    /\ training = [n \in NetNames |-> TRUE]
    /\ optSteps = [actor_optimizer |-> 0, critic_optimizer |-> 0]
    /\ memory = <<>>
    /\ maxlen = BUFFER_SIZE
    /\ last = NoCall
    /\ added = <<>>
    /\ ref = [a \in Agents |-> NoRef]
    /\ ncalls = 0

\* agent.soft_update(local_model, target_model, tau)
SoftUpdateCall(pair, tauNum) ==
    /\ nets' = SoftUpdate(nets, pair[1], pair[2], tauNum)
    /\ last' = [NoCall EXCEPT !.op = "soft_update", !.agent = 1,
                              !.tau = tauNum, !.local = pair[1],
                              !.target = pair[2], !.before = nets[pair[2]]]
    /\ UNCHANGED <<agents, rng, resourcePool, training, optSteps, memory,
                   maxlen, added, ref, ncalls>>

NextSoft == \E pair \in Pairs, tauNum \in TauNums : SoftUpdateCall(pair, tauNum)

SpecSoft == InitSoft /\ [][NextSoft]_vars

----------------------------------------------------------------------------
(* Properties *)

Targets == {"actor_target", "critic_target"}
Built == {a \in Agents : agents[a] # NoAgent}

\* the transition is a call of the named operation returning
Returns(op) == ncalls' = ncalls + 1 /\ last'.op = op

\* C1: the buffer never holds more than its capacity, and it holds exactly the
\* most recently added experiences, as many as fit, in the order they were
\* added.
C1_BufferHoldsMostRecent ==
    LET n == Len(added)
        k == IF n < maxlen THEN n ELSE maxlen
    IN /\ ReplayBufferLen(memory) <= maxlen
       /\ ReplayBufferLen(memory) = k
       /\ \A i \in 1..k : memory[i] = added[n - k + i]

\* seven experiences added to a buffer of capacity five: the two oldest are gone
C1_Witness ==
    /\ maxlen = 5
    /\ Len(added) = 7
    /\ Len(memory) = 5
    /\ added[1] # added[3]
    /\ added[2] # added[7]
    /\ memory[1] = added[3]
    /\ memory[5] = added[7]

\* C2: a step call appends exactly one experience to the buffer (evicting the
\* oldest when full), and it samples and learns LEARN_N_TIMES times when its
\* time_step is a multiple of LEARN_N_INTERVAL and the buffer then holds more
\* than BATCH_SIZE experiences, and not at all otherwise.
C2_StepLearnsWhenGated ==
    [][Returns("step") =>
        LET gated == /\ last'.time_step % LEARN_N_INTERVAL = 0
                     /\ Len(memory') > BATCH_SIZE
            n == Len(memory')
        IN /\ last'.nadd = 1
           /\ n = (IF Len(memory) < maxlen THEN Len(memory) + 1 ELSE maxlen)
           /\ \A i \in 1..(n - 1) : memory'[i] = memory[Len(memory) - (n - 1) + i]
           /\ last'.nlearn = (IF gated THEN LEARN_N_TIMES ELSE 0)
           /\ last'.nsample = last'.nlearn
           /\ Len(last'.log) = Len(LearnOrder) * last'.nlearn
           /\ optSteps'.critic_optimizer =
                 optSteps.critic_optimizer + last'.nlearn
      ]_vars

\* a step on a learning tick with enough experiences has learned
C2_Witness ==
    /\ last.op = "step"
    /\ last.time_step % LEARN_N_INTERVAL = 0
    /\ last.len > BATCH_SIZE
    /\ last.nlearn = LEARN_N_TIMES
    /\ last.nsample = LEARN_N_TIMES

\* C3: no step call ever invokes ReplayBuffer.sample while the buffer holds
\* fewer than batch_size experiences, so random.sample never raises.
C3_SampleNeverShort ==
    last.op = "step" => last.short = 0 /\ ~last.error

\* two agents share the pool and a step has sampled it
C3_Witness ==
    /\ Cardinality(Built) = 2
    /\ last.op = "step"
    /\ last.nsample = LEARN_N_TIMES
    /\ Len(last.batch.states) = BATCH_SIZE

\* C4: every agent uses a pool built for its own (state_size, action_size).
C4_PoolPerConfiguration ==
    \A a \in Built :
        /\ resourcePool.state_size = agents[a].state_size
        /\ resourcePool.action_size = agents[a].action_size

\* C5: once the pool exists, the target networks' parameters change only in a
\* soft_update step of learn: no call but a learning one changes them, and within
\* learn the optimizer steps write only critic_local and actor_local.
C5_TargetsOnlySoftUpdated ==
    [][resourcePool # NoPool =>
        /\ (\E n \in Targets : nets'[n] # nets[n]) =>
              (Returns("step") \/ Returns("learn")) /\ last'.nlearn > 0
        /\ (Returns("step") \/ Returns("learn")) =>
              \A i \in 1..Len(last'.log) :
                 LET en == last'.log[i]
                 IN /\ en.writes \cap Targets # {} =>
                          en.stage \in {"soft_critic", "soft_actor"}
                    /\ en.stage = "critic_step" =>
                          en.writes \subseteq {"critic_local"}
                    /\ en.stage = "actor_step" =>
                          en.writes \subseteq {"actor_local"}
                    /\ en.stage = "soft_critic" =>
                          en.writes \subseteq {"critic_target"}
                    /\ en.stage = "soft_actor" =>
                          en.writes \subseteq {"actor_target"}
      ]_vars

\* a learn in which both optimizers moved their local network and both soft
\* updates then moved their target
C5_Witness ==
    /\ last.op = "step"
    /\ \E i \in 1..Len(last.log) :
          last.log[i].stage = "critic_step"
          /\ last.log[i].writes = {"critic_local"}
    /\ \E i \in 1..Len(last.log) :
          last.log[i].stage = "actor_step"
          /\ last.log[i].writes = {"actor_local"}
    /\ \E i \in 1..Len(last.log) :
          last.log[i].stage = "soft_critic"
          /\ last.log[i].writes = {"critic_target"}
    /\ \E i \in 1..Len(last.log) :
          last.log[i].stage = "soft_actor"
          /\ last.log[i].writes = {"actor_target"}

\* C6: an agent's noise state is the one its process reaches on a generator of
\* its own, seeded at construction and advanced by its own sample() calls only
\* (ref is that run, so a difference shows other calls changing the values).
C6_NoiseIndependent ==
    \A a \in Built : agents[a].noise = ref[a].state

\* C7: reset() sets the calling agent's noise state to mu and changes nothing
\* else: not the networks, their modes, the optimizers, the buffer, the random
\* generator or any other agent.
C7_ResetFrame ==
    [][Returns("reset") =>
        LET a == last'.agent
        IN /\ agents'[a].noise = agents[a].mu
           /\ agents'[a].mu = agents[a].mu
           /\ agents'[a].state_size = agents[a].state_size
           /\ agents'[a].action_size = agents[a].action_size
           /\ \A b \in Agents \ {a} : agents'[b] = agents[b]
           /\ UNCHANGED <<rng, resourcePool, nets, training, optSteps, memory,
                          maxlen>>
      ]_vars

\* an agent whose noise had left the mean was reset while another agent's noise
\* is away from the mean
C7_Witness ==
    /\ last.op = "reset"
    /\ last.before # agents[last.agent].mu
    /\ agents[last.agent].noise = agents[last.agent].mu
    /\ \E b \in Built \ {last.agent} : agents[b].noise # agents[b].mu

C9_LearnOrder ==
    last.op \in {"step", "learn"} =>
        /\ Len(last.log) = 6 * last.nlearn
        /\ \A j \in 0..(last.nlearn - 1) :
              LET en(k) == last.log[6 * j + k]
              IN /\ en(1).stage = "td_target"
                 /\ en(2).stage = "critic_step"
                 /\ en(3).stage = "actor_loss"
                 /\ en(4).stage = "actor_step"
                 /\ en(5).stage = "soft_critic"
                 /\ en(6).stage = "soft_actor"
                 /\ en(1).reads = {"actor_target", "critic_target"}
                 /\ "critic_local" \in en(3).reads
                 /\ "critic_target" \notin en(3).reads
                 /\ en(3).critic_steps = en(1).critic_steps + 1
                 /\ en(3).actor_steps = en(1).actor_steps
                 /\ en(5).critic_steps = en(1).critic_steps + 1
                 /\ en(5).actor_steps = en(1).actor_steps + 1
                 /\ \A k \in 1..4 : en(k).writes \cap Targets = {}

\* a step has learned LEARN_N_TIMES times, each step of each learn changing
\* what it writes
C9_Witness ==
    /\ last.op = "step"
    /\ last.nlearn = LEARN_N_TIMES
    /\ Len(last.log) = 6 * LEARN_N_TIMES
    /\ \A i \in 1..Len(last.log) :
          last.log[i].stage \in {"critic_step", "actor_step", "soft_critic",
                                 "soft_actor"} => last.log[i].writes # {}

\* C10: soft_update(local, target, tau) leaves the local parameters alone and
\* makes every target parameter tau*local + (1-tau)*target (to the nearest
\* representable value); with tau = 1 the target becomes the local, with tau = 0
\* it stays as it was, and a second soft_update with tau = 1 changes nothing.
C10_SoftUpdateBlend ==
    [][last'.op = "soft_update" =>
        LET tn == last'.tau
            l == nets[last'.local]
            t == nets[last'.target]
            t1 == nets'[last'.target]
            exact(i) == tn * l[i] + (TAU_DEN - tn) * t[i]
        IN /\ \A n \in NetNames \ {last'.target} : nets'[n] = nets[n]
           /\ Len(t1) = Len(t)
           /\ \A i \in 1..Len(t) :
                 /\ 2 * (TAU_DEN * t1[i] - exact(i)) <= TAU_DEN
                 /\ 2 * (exact(i) - TAU_DEN * t1[i]) <= TAU_DEN
           /\ tn = TAU_DEN => t1 = l
           /\ tn = 0 => t1 = t
           /\ (tn = TAU_DEN /\ last.op = "soft_update" /\ last.tau = TAU_DEN
                 /\ last.target = last'.target) => t1 = t
      ]_vars

\* soft_update with tau = 1 on a target that differed from its local network
C10_Witness ==
    /\ last.op = "soft_update"
    /\ last.tau = TAU_DEN
    /\ last.before # nets[last.local]
    /\ nets[last.target] = nets[last.local]

====
